---- MODULE Spec2Model ----
(***************************************************************************)
(* Verification model of the video assembly engine (video_editor.py), of   *)
(* the image generator feeding it (gemini_image_generator.py) and of the   *)
(* collaborators around it.  Each part has its own specification; the      *)
(* variables of the other parts stay at their idle values.                 *)
(*                                                                         *)
(* Times are fixed-point numbers in hundredths of a second: 430 is 4.30 s. *)
(* The arithmetic of the timeline (additions, subtractions and max) is     *)
(* closed on such numbers.                                                 *)
(***************************************************************************)
EXTENDS Integers, Sequences, FiniteSets, TLC

\* ------------------------------------------------------------------------
\* Bounds of the model
\* ------------------------------------------------------------------------
MaxScenes == 3
MaxRetries == 3                   \* largest max_retries a call is made with
MaxTopics == 2                    \* topics a session can search, select or reuse
MaxSegments == 2                  \* scenes of each of two concurrent builds

\* Input values the builds and the estimator are exercised with.
Durations == {100, 400, 600}      \* real lengths of narration files
Crossfades == {0, 30, 350}        \* crossfade_sec: none, the drivers' 0.3 s, longer than a scene
MinSeconds == {200, 300}          \* min_seconds of the estimator
Pads == {0, 15}                   \* head_pad / tail_pad of the estimator
BuildMinSceneSeconds == {300}     \* min_scene_seconds: the drivers' 3.0 s
BuildPads == {15}                 \* head_pad, tail_pad: the default, passed by the drivers

VARIABLES
    \* inputs of one build_video call
    images,             \* list of image files: [n: index in the file name, ok: readable]
    crossfade_sec, min_scene_seconds, head_pad, tail_pad,
    \* locals of build_video
    pc,                 \* position in build_video
    use_moviepy, moviepy_version,
    idx,                \* number of images the scene loop has consumed
    clips,              \* image clips, in order: [scene, duration]
    audio_tracks,       \* narration clips placed on the audio track: [scene, start]
    timings,            \* the timeline manifest
    current_start,
    final_video,        \* the concatenated clip: [made, duration, starts, audio, music]
    seg_idx,            \* number of timings the segment loop has consumed
    segment_paths,      \* raw-tool segments written: [scene, duration]
    \* outcome and environment
    out_dir_made,       \* the output directory has been created
    tmp_dir_made,       \* <out_dir>/_segments exists
    video_file,         \* "absent", "partial" or "complete"
    result,             \* the returned dictionary, or NoResult
    error,              \* the exception that left build_video, or "none"
    imports,            \* outcomes of the import attempts made, in order
    ffmpeg_on_path,     \* shutil.which("ffmpeg"): "unknown" until asked, then "yes" or "no"
    music,              \* the background music: "none", "load_failed", "process_failed", "mixed"
    writes,             \* the write_videofile attempts made: [params, ok]
    closed,             \* the handles close() has been called on
    \* one call of _estimate_scene_duration
    est_args, est_ret

\* one call of GeminiImageGenerator.generate_comic_image
VARIABLES
    gen_args,           \* [client, output_path, max_retries] of the outermost call
    gen_attempt,        \* attempt of the frame about to run
    gen_requests,       \* generate_content requests made
    gen_sleeps,         \* the time.sleep calls made, in seconds
    gen_last,           \* how the last frame ended: "none", "client", "image",
                        \* "no_image", "quota", "error"
    gen_placeholder,    \* _create_placeholder_image: "none", "written", "failed"
    gen_written,        \* files written in full: [path, kind]
    gen_ret             \* "none" while running, then "True" or "False"

\* one call of synthesize_to_mp3
VARIABLES
    tts_args,           \* [output_path, speed, pydub]; speed in thousandths
    tts_pc,             \* "start", "adjust", "remove", "returned", "raised"
    tts_files,          \* the files on disk: [path, content]
    tts_success         \* adjust_audio_speed: "none", "adjusted", "copied", "failed"

\* one call of WikipediaExtractor.search_wikipedia or get_page_info
VARIABLES
    wiki_args,          \* [fn, query, retries]
    wiki_attempt,       \* the local attempt
    wiki_passes,        \* passes through the try block of the loop
    wiki_calls,         \* calls of the wikipedia library made
    wiki_sleeps,        \* the time.sleep calls made, in seconds
    wiki_last,          \* how the last pass ended
    wiki_ret            \* "none" while running, then the value returned

\* one Streamlit session of the driver (final.py)
VARIABLES
    session,            \* st.session_state
    sess_disk,          \* topics that have a directory under data/images
    sess_build,         \* the build_video call of the last script run: [images, audio],
                        \* NoBuild when it made none
    sess_last           \* the button the last script run handled

\* two calls of build_video running at the same time
VARIABLES
    b_args,             \* per build: [out_dir, title, use_moviepy]
    b_pc,               \* per build: its position
    b_seg,              \* per build: segments written by the segment loop
    b_read,             \* per build: whose segments its concat run has read
    fs                  \* the files on disk: [path, content], content the build that wrote it

build_vars == <<images, crossfade_sec, min_scene_seconds, head_pad, tail_pad,
                pc, use_moviepy, moviepy_version, idx, clips, audio_tracks,
                timings, current_start, final_video, seg_idx, segment_paths,
                out_dir_made, tmp_dir_made, video_file, result, error,
                imports, ffmpeg_on_path, music, writes, closed>>
est_vars == <<est_args, est_ret>>
gen_vars == <<gen_args, gen_attempt, gen_requests, gen_sleeps, gen_last,
              gen_placeholder, gen_written, gen_ret>>
tts_vars == <<tts_args, tts_pc, tts_files, tts_success>>
wiki_vars == <<wiki_args, wiki_attempt, wiki_passes, wiki_calls, wiki_sleeps,
               wiki_last, wiki_ret>>
sess_vars == <<session, sess_disk, sess_build, sess_last>>
conc_vars == <<b_args, b_pc, b_seg, b_read, fs>>
sub_vars == <<gen_vars, tts_vars, wiki_vars, sess_vars, conc_vars>>
vars == <<build_vars, est_vars, sub_vars>>
gen_rest == <<build_vars, est_vars, tts_vars, wiki_vars, sess_vars, conc_vars>>
tts_rest == <<build_vars, est_vars, gen_vars, wiki_vars, sess_vars, conc_vars>>
wiki_rest == <<build_vars, est_vars, gen_vars, tts_vars, sess_vars, conc_vars>>
sess_rest == <<build_vars, est_vars, gen_vars, tts_vars, wiki_vars, conc_vars>>
conc_rest == <<build_vars, est_vars, gen_vars, tts_vars, wiki_vars, sess_vars>>

\* ------------------------------------------------------------------------
\* Helpers
\* ------------------------------------------------------------------------
Max(a, b) == IF a >= b THEN a ELSE b

RECURSIVE SumDuration(_)
SumDuration(s) == IF s = <<>> THEN 0 ELSE s[1].duration + SumDuration(Tail(s))

RECURSIVE Pow2(_)
Pow2(n) == IF n <= 0 THEN 1 ELSE 2 * Pow2(n - 1)

\* ------------------------------------------------------------------------
\* Idle values of the collaborators
\* ------------------------------------------------------------------------
NoPath == [stem |-> "", ext |-> ""]
NoGenArgs == [client |-> FALSE, output_path |-> NoPath, max_retries |-> 0]

GenIdle ==
    /\ gen_args = NoGenArgs
    /\ gen_attempt = 0
    /\ gen_requests = 0
    /\ gen_sleeps = <<>>
    /\ gen_last = "none"
    /\ gen_placeholder = "none"
    /\ gen_written = {}
    /\ gen_ret = "idle"

NoTtsArgs == [output_path |-> <<>>, speed |-> 1000, pydub |-> FALSE]

TtsIdle ==
    /\ tts_args = NoTtsArgs
    /\ tts_pc = "idle"
    /\ tts_files = {}
    /\ tts_success = "none"

NoWikiArgs == [fn |-> "none", query |-> <<>>, retries |-> 0]

WikiIdle ==
    /\ wiki_args = NoWikiArgs
    /\ wiki_attempt = 0
    /\ wiki_passes = 0
    /\ wiki_calls = 0
    /\ wiki_sleeps = <<>>
    /\ wiki_last = "none"
    /\ wiki_ret = "idle"

\* st.session_state after init_session_state (final.py lines 46-69).  A
\* topic is a number; 0 stands for None (and for an empty list or dict,
\* which the driver tests the same way); an artifact is held as the topic
\* it was made for.
NoPage == [title |-> 0, kind |-> "None"]
NoBuild == [images |-> 0, audio |-> 0]

SessionInit ==
    [search_results |-> {}, selected_topic |-> 0, page_info |-> NoPage,
     storyline |-> 0, scene_prompts |-> 0, comic_images |-> 0,
     story_saved |-> FALSE, narrations |-> 0, audio_paths |-> 0,
     final_video |-> 0]

SessIdle ==
    /\ session = SessionInit
    /\ sess_disk = {}
    /\ sess_build = NoBuild
    /\ sess_last = "idle"

ConcIdle ==
    /\ b_args = <<>>
    /\ b_pc = <<>>
    /\ b_seg = <<>>
    /\ b_read = <<>>
    /\ fs = {}

SubsystemsIdle == GenIdle /\ TtsIdle /\ WikiIdle /\ SessIdle /\ ConcIdle

\* ------------------------------------------------------------------------
\* Narration files
\* ------------------------------------------------------------------------
\* audio_path as seen by the code: path = 0 is None (no entry in scene_audio),
\* path = k is the file stored under the key scene_<k>.  exists is
\* os.path.exists; d is the real length of the file; pydub, mp2 and mp1 tell
\* whether the try block of each decoder runs to its end; loads tells whether
\* AudioFileClip in the scene loop succeeds.
NoAudioPath == [path |-> 0, exists |-> FALSE, d |-> 0,
                pydub |-> FALSE, mp2 |-> FALSE, mp1 |-> FALSE, loads |-> FALSE]

AudioFile(k) == [path: {k}, exists: BOOLEAN, d: Durations,
                 pydub: BOOLEAN, mp2: BOOLEAN, mp1: BOOLEAN, loads: BOOLEAN]

\* scene_audio.get(scene_key): None, or the file stored under that key.
SceneAudioGet(scene_num) == {NoAudioPath} \cup AudioFile(scene_num)

AudioPresent(audio_path) == audio_path.path # 0 /\ audio_path.exists

\* ------------------------------------------------------------------------
\* _get_audio_duration_seconds and _estimate_scene_duration
\* ------------------------------------------------------------------------
GetAudioDurationSeconds(audio_path) ==
    IF audio_path.pydub THEN audio_path.d ELSE 0

EstimateNoV1Fallback(audio_path, min_seconds, hp, tp) ==
    IF AudioPresent(audio_path)
    THEN LET d == GetAudioDurationSeconds(audio_path) IN
         IF d > 0 THEN Max(min_seconds, d + hp + tp)
         ELSE IF audio_path.mp2 THEN Max(min_seconds, audio_path.d + hp + tp)
         ELSE Max(min_seconds, hp + tp)
    ELSE min_seconds

EstimateNoMaxFallback(audio_path, min_seconds, hp, tp) ==
    IF AudioPresent(audio_path)
    THEN LET d == GetAudioDurationSeconds(audio_path) IN
         IF d > 0 THEN Max(min_seconds, d + hp + tp)
         ELSE IF audio_path.mp2 THEN Max(min_seconds, audio_path.d + hp + tp)
         ELSE IF audio_path.mp1 THEN Max(min_seconds, audio_path.d + hp + tp)
         ELSE hp + tp
    ELSE min_seconds

EstimateSilentPadded(audio_path, min_seconds, hp, tp) ==
    IF AudioPresent(audio_path)
    THEN LET d == GetAudioDurationSeconds(audio_path) IN
         IF d > 0 THEN Max(min_seconds, d + hp + tp)
         ELSE IF audio_path.mp2 THEN Max(min_seconds, audio_path.d + hp + tp)
         ELSE IF audio_path.mp1 THEN Max(min_seconds, audio_path.d + hp + tp)
         ELSE Max(min_seconds, hp + tp)
    ELSE min_seconds + hp + tp

EstimateSceneDuration(audio_path, min_seconds, hp, tp) ==
    IF AudioPresent(audio_path)
    THEN LET d == GetAudioDurationSeconds(audio_path) IN
         IF d > 0 THEN Max(min_seconds, d + hp + tp)
         ELSE IF audio_path.mp2 THEN Max(min_seconds, audio_path.d + hp + tp)
         ELSE IF audio_path.mp1 THEN Max(min_seconds, audio_path.d + hp + tp)
         ELSE Max(min_seconds, hp + tp)
    ELSE min_seconds

\* ------------------------------------------------------------------------
\* GeminiImageGenerator.generate_comic_strip: the image list
\* ------------------------------------------------------------------------
\* saved is the set of scene numbers whose scene_<n>.jpg exists after
\* generate_comic_image; only those paths are appended, in scene order.
GenerateComicStrip(n_prompts, saved) ==
    SelectSeq([i \in 1..n_prompts |-> i], LAMBDA i: i \in saved)

\* The image files handed to build_video; unreadable is the set of files no
\* decoder can open.
ImageList(paths, unreadable) ==
    [i \in 1..Len(paths) |-> [n |-> paths[i], ok |-> paths[i] \notin unreadable]]

ImageLists ==
    { ImageList(GenerateComicStrip(np, saved), unreadable) :
        np \in 0..MaxScenes, saved \in SUBSET (1..MaxScenes),
        unreadable \in SUBSET (1..MaxScenes) }

\* ------------------------------------------------------------------------
\* build_video
\* ------------------------------------------------------------------------
NoResult == [video_path |-> "none", timings |-> <<>>, duration |-> 0]
NoSpan == [start |-> 0, duration |-> 0]
NoVideo == [made |-> FALSE, duration |-> 0, starts |-> <<>>, audio |-> "none", music |-> NoSpan]
NoEstimate == [audio_path |-> NoAudioPath, min_seconds |-> 0, head_pad |-> 0, tail_pad |-> 0]

\* The entry appended to timings (lines 204-211).
TimingEntryShortEnd(scene_num, start, duration, img_path, audio_path) ==
    [scene |-> scene_num, start |-> start,
     end |-> start + duration - (IF crossfade_sec > 0 THEN crossfade_sec ELSE 0),
     duration |-> duration, image |-> img_path,
     audio |-> IF AudioPresent(audio_path) THEN audio_path.path ELSE 0]

TimingEntry(scene_num, start, duration, img_path, audio_path) ==
    [scene |-> scene_num, start |-> start, end |-> start + duration,
     duration |-> duration, image |-> img_path,
     audio |-> IF AudioPresent(audio_path) THEN audio_path.path ELSE 0]

\* current_start after a scene (line 213).
NextStartNotAfterFirst(start, duration, scene_num) ==
    start + duration - (IF scene_num > 1 /\ crossfade_sec > 0 THEN crossfade_sec ELSE 0)

NextStartNoOverlap(start, duration, scene_num) ==
    start + duration

NextStart(start, duration, scene_num) ==
    start + duration - (IF crossfade_sec > 0 THEN crossfade_sec ELSE 0)

Raise(e) ==
    /\ pc' = "raised"
    /\ error' = e

Init ==
    /\ images \in ImageLists
    /\ crossfade_sec \in Crossfades
    /\ min_scene_seconds \in BuildMinSceneSeconds
    /\ head_pad \in BuildPads
    /\ tail_pad \in BuildPads
    /\ pc = "import"
    /\ use_moviepy = FALSE
    /\ moviepy_version = 0
    /\ idx = 0
    /\ clips = <<>>
    /\ audio_tracks = <<>>
    /\ timings = <<>>
    /\ current_start = 0
    /\ final_video = NoVideo
    /\ seg_idx = 0
    /\ segment_paths = <<>>
    /\ out_dir_made = FALSE
    /\ tmp_dir_made = FALSE
    /\ video_file = "absent"
    /\ result = NoResult
    /\ error = "none"
    /\ imports = <<>>
    /\ ffmpeg_on_path = "unknown"
    /\ music = "none"
    /\ writes = <<>>
    /\ closed = {}
    /\ SubsystemsIdle
    /\ est_args = NoEstimate
    /\ est_ret = -1

\* An import block ends normally, raises ImportError, or raises another
\* exception (a dependency that fails while it is being loaded).
ImportOutcomes == {"ok", "ImportError", "other"}

\* The imports attempted (lines 76-97): 2.x first, 1.x only after an
\* ImportError of 2.x.
ImportRuns ==
    { r \in UNION { [1..n -> ImportOutcomes] : n \in 1..2 } :
        (Len(r) = 2) <=> (r[1] = "ImportError") }

\* Lines 83 and 93: only ImportError is caught.
ImportCaught(outcome) == outcome = "ImportError"

\* Lines 72-106: the imports, the output directory, the empty collections.
SelectBackend ==
    /\ pc = "import"
    /\ \E run \in ImportRuns :
        /\ imports' = run
        /\ IF \E i \in 1..Len(run) : run[i] # "ok" /\ ~ImportCaught(run[i])
           THEN /\ Raise("import")
                /\ UNCHANGED <<use_moviepy, moviepy_version, out_dir_made>>
           ELSE /\ use_moviepy' = (run[Len(run)] = "ok")
                /\ moviepy_version' = IF run[1] = "ok" THEN 2
                                      ELSE IF run[2] = "ok" THEN 1 ELSE 0
                /\ out_dir_made' = TRUE
                /\ pc' = "loop"
                /\ UNCHANGED error
    /\ UNCHANGED <<images, crossfade_sec, min_scene_seconds, head_pad, tail_pad,
                   idx, clips, audio_tracks, timings, current_start, final_video,
                   seg_idx, segment_paths, tmp_dir_made, video_file, result>>
    /\ UNCHANGED <<ffmpeg_on_path, music, writes>>
    /\ UNCHANGED closed
    /\ UNCHANGED est_vars
    /\ UNCHANGED sub_vars

\* Lines 115-140 / 177-188: the camera motion given to the clip of a scene.
\* The clip is ImageClip(img_path), resized and given a duration: a still
\* frame.  build_video takes no zoom or pan parameter (lines 54-67) and no
\* crop or position is made a function of time, so no scene pans.
PanDirection(scene_index) == "none"

\* What one iteration of the scene loop leaves behind when nothing raises
\* (lines 140-175 / 190-202 for the clip and the narration, 204-213 always).
SceneDone(scene_num, img, audio_path, duration, with_clip) ==
    /\ clips' = IF with_clip
                THEN Append(clips, [scene |-> scene_num, duration |-> duration])
                ELSE clips
    /\ audio_tracks' = IF with_clip /\ AudioPresent(audio_path) /\ audio_path.loads
                       THEN Append(audio_tracks, [scene |-> scene_num, start |-> current_start])
                       ELSE audio_tracks
    /\ timings' = Append(timings, TimingEntry(scene_num, current_start, duration, img.n, audio_path))
    /\ current_start' = NextStart(current_start, duration, scene_num)
    /\ idx' = idx + 1
    /\ UNCHANGED <<pc, error>>

\* Lines 108-175 and 204-213: one scene under MoviePy 2.x.  The three
\* ImageClip attempts differ in the resize call only; all of them open the
\* image, so an unreadable image fails the three and line 131 raises.
\* crossfadein (lines 134-138) changes the opacity of the clip only.
SceneV2 ==
    /\ pc = "loop" /\ idx < Len(images)
    /\ use_moviepy /\ moviepy_version = 2
    /\ LET scene_num == idx + 1
           img == images[idx + 1]
       IN \E audio_path \in SceneAudioGet(scene_num) :
            LET duration == EstimateSceneDuration(audio_path, min_scene_seconds, head_pad, tail_pad)
            IN IF img.ok
               THEN SceneDone(scene_num, img, audio_path, duration, TRUE)
               ELSE /\ Raise("image_clip")
                    /\ UNCHANGED <<clips, audio_tracks, timings, current_start, idx>>
    /\ UNCHANGED <<images, crossfade_sec, min_scene_seconds, head_pad, tail_pad,
                   use_moviepy, moviepy_version, final_video, seg_idx, segment_paths,
                   out_dir_made, tmp_dir_made, video_file, result>>
    /\ UNCHANGED <<imports, ffmpeg_on_path, music, writes>>
    /\ UNCHANGED closed
    /\ UNCHANGED est_vars
    /\ UNCHANGED sub_vars

\* Lines 108-113, 177-213: one scene under MoviePy 1.x.  The second ImageClip
\* attempt (line 182) is outside any try: an unreadable image raises.
SceneV1 ==
    /\ pc = "loop" /\ idx < Len(images)
    /\ use_moviepy /\ moviepy_version = 1
    /\ LET scene_num == idx + 1
           img == images[idx + 1]
       IN \E audio_path \in SceneAudioGet(scene_num) :
            LET duration == EstimateSceneDuration(audio_path, min_scene_seconds, head_pad, tail_pad)
            IN IF img.ok
               THEN SceneDone(scene_num, img, audio_path, duration, TRUE)
               ELSE /\ Raise("image_clip")
                    /\ UNCHANGED <<clips, audio_tracks, timings, current_start, idx>>
    /\ UNCHANGED <<images, crossfade_sec, min_scene_seconds, head_pad, tail_pad,
                   use_moviepy, moviepy_version, final_video, seg_idx, segment_paths,
                   out_dir_made, tmp_dir_made, video_file, result>>
    /\ UNCHANGED <<imports, ffmpeg_on_path, music, writes>>
    /\ UNCHANGED closed
    /\ UNCHANGED est_vars
    /\ UNCHANGED sub_vars

\* Lines 108-113, 204-213: one scene when MoviePy is not available; the
\* image is not opened here.
SceneRaw ==
    /\ pc = "loop" /\ idx < Len(images)
    /\ ~use_moviepy
    /\ LET scene_num == idx + 1
           img == images[idx + 1]
       IN \E audio_path \in SceneAudioGet(scene_num) :
            LET duration == EstimateSceneDuration(audio_path, min_scene_seconds, head_pad, tail_pad)
            IN SceneDone(scene_num, img, audio_path, duration, FALSE)
    /\ UNCHANGED <<images, crossfade_sec, min_scene_seconds, head_pad, tail_pad,
                   use_moviepy, moviepy_version, final_video, seg_idx, segment_paths,
                   out_dir_made, tmp_dir_made, video_file, result>>
    /\ UNCHANGED <<imports, ffmpeg_on_path, music, writes>>
    /\ UNCHANGED closed
    /\ UNCHANGED est_vars
    /\ UNCHANGED sub_vars

\* concatenate_videoclips: the library takes the frame size from the clips
\* (a max over them) and so raises on an empty list, whatever the method;
\* on a non-empty list either call signature may be rejected.
ConcatenateVideoclips(cs) == IF cs = <<>> THEN {FALSE} ELSE BOOLEAN

\* Where concatenate_videoclips puts the clips: it is called without padding,
\* so each clip starts where the previous one ends.
ConcatStarts(cs) == [i \in 1..Len(cs) |-> SumDuration(SubSeq(cs, 1, i - 1))]

\* bg_music_path: None, a path that does not exist, a file AudioFileClip
\* cannot load, a file whose volume / start / duration / mixing raises, or a
\* file that goes through.
MusicInputs == {"not_given", "missing", "load_fails", "process_fails", "ok"}

MusicSpanOfTimeline(video_duration) == [start |-> 0, duration |-> current_start]

\* Lines 255 / 285: with_start(0).with_duration(final_video.duration).
MusicSpan(video_duration) == [start |-> 0, duration |-> video_duration]

\* Lines 229-265 / 276-294: the narration clips are composed and attached,
\* with the background music when there is one.  A failure of the music is
\* logged and the narration attached alone; a failure of the composition of
\* the narration is logged and the video stays silent.  with_audio /
\* set_audio only store the track on the clip.
AttachAudio(cs) ==
    LET video == [made |-> TRUE, duration |-> SumDuration(cs), starts |-> ConcatStarts(cs),
                  audio |-> "none", music |-> NoSpan]
    IN IF audio_tracks # <<>>
       THEN \E composed \in BOOLEAN, bg_music \in MusicInputs :
               IF ~composed
               THEN final_video' = video /\ music' = "none"
               ELSE IF bg_music \in {"not_given", "missing"}
               THEN final_video' = [video EXCEPT !.audio = "narration"] /\ music' = "none"
               ELSE IF bg_music = "load_fails"
               THEN final_video' = [video EXCEPT !.audio = "narration"] /\ music' = "load_failed"
               ELSE IF bg_music = "process_fails"
               THEN final_video' = [video EXCEPT !.audio = "narration"] /\ music' = "process_failed"
               ELSE /\ final_video' = [video EXCEPT !.audio = "mixed",
                                                    !.music = MusicSpan(video.duration)]
                    /\ music' = "mixed"
       ELSE final_video' = video /\ music' = "none"

\* Lines 215-265: concatenation and audio composition under MoviePy 2.x.
ComposeV2 ==
    /\ pc = "loop" /\ idx = Len(images)
    /\ use_moviepy /\ moviepy_version = 2
    /\ \E compose_ok \in ConcatenateVideoclips(clips),
          basic_ok \in ConcatenateVideoclips(clips) :
        IF compose_ok \/ basic_ok
        THEN /\ AttachAudio(clips)
             /\ pc' = "write_optimized"
             /\ UNCHANGED error
        ELSE /\ Raise("concatenate")
             /\ UNCHANGED <<final_video, music>>
    /\ UNCHANGED <<images, crossfade_sec, min_scene_seconds, head_pad, tail_pad,
                   use_moviepy, moviepy_version, idx, clips, audio_tracks, timings,
                   current_start, seg_idx, segment_paths, out_dir_made, tmp_dir_made,
                   video_file, result>>
    /\ UNCHANGED <<imports, ffmpeg_on_path, writes>>
    /\ UNCHANGED closed
    /\ UNCHANGED est_vars
    /\ UNCHANGED sub_vars

ComposeV1FallsToRaw ==
    /\ pc = "loop" /\ idx = Len(images)
    /\ use_moviepy /\ moviepy_version = 1
    /\ \E compose_ok \in ConcatenateVideoclips(clips),
          basic_ok \in ConcatenateVideoclips(clips) :
        IF compose_ok \/ basic_ok
        THEN /\ AttachAudio(clips)
             /\ pc' = "write_optimized"
             /\ UNCHANGED <<error, use_moviepy, moviepy_version>>
        ELSE /\ use_moviepy' = FALSE
             /\ moviepy_version' = 0
             /\ UNCHANGED <<pc, error, final_video, music>>
    /\ UNCHANGED <<images, crossfade_sec, min_scene_seconds, head_pad, tail_pad,
                   idx, clips, audio_tracks, timings,
                   current_start, seg_idx, segment_paths, out_dir_made, tmp_dir_made,
                   video_file, result>>
    /\ UNCHANGED <<imports, ffmpeg_on_path, writes>>
    /\ UNCHANGED closed
    /\ UNCHANGED est_vars
    /\ UNCHANGED sub_vars

\* Lines 267-294: the same under MoviePy 1.x; the second concatenation
\* (line 273) is outside any try.
ComposeV1 ==
    /\ pc = "loop" /\ idx = Len(images)
    /\ use_moviepy /\ moviepy_version = 1
    /\ \E compose_ok \in ConcatenateVideoclips(clips),
          basic_ok \in ConcatenateVideoclips(clips) :
        IF compose_ok \/ basic_ok
        THEN /\ AttachAudio(clips)
             /\ pc' = "write_optimized"
             /\ UNCHANGED error
        ELSE /\ Raise("concatenate")
             /\ UNCHANGED <<final_video, music>>
    /\ UNCHANGED <<images, crossfade_sec, min_scene_seconds, head_pad, tail_pad,
                   use_moviepy, moviepy_version, idx, clips, audio_tracks, timings,
                   current_start, seg_idx, segment_paths, out_dir_made, tmp_dir_made,
                   video_file, result>>
    /\ UNCHANGED <<imports, ffmpeg_on_path, writes>>
    /\ UNCHANGED closed
    /\ UNCHANGED est_vars
    /\ UNCHANGED sub_vars

WriteErrorFirst(e, e2, e3) == "All video write attempts failed. Last error: " \o e

\* Line 342: the exception raised when the three attempts failed.
WriteError(e, e2, e3) == "All video write attempts failed. Last error: " \o e3

\* One write_videofile attempt: it completes the file, or raises and leaves
\* nothing or an incomplete file behind.  The exception of an attempt is
\* named after its parameter set.
WriteAttempt(here, params, on_failure) ==
    /\ pc = here
    /\ \/ /\ video_file' = "complete"
          /\ writes' = Append(writes, [params |-> params, ok |-> TRUE])
          /\ pc' = "cleanup"
          /\ UNCHANGED error
       \/ /\ video_file' \in {video_file, "partial"}
          /\ writes' = Append(writes, [params |-> params, ok |-> FALSE])
          /\ IF on_failure = "raised"
             THEN Raise(WriteError("optimized", "basic", params))
             ELSE pc' = on_failure /\ UNCHANGED error
    /\ UNCHANGED <<images, crossfade_sec, min_scene_seconds, head_pad, tail_pad,
                   use_moviepy, moviepy_version, idx, clips, audio_tracks, timings,
                   current_start, final_video, seg_idx, segment_paths, out_dir_made,
                   tmp_dir_made, result>>
    /\ UNCHANGED <<imports, ffmpeg_on_path, music>>
    /\ UNCHANGED closed
    /\ UNCHANGED est_vars
    /\ UNCHANGED sub_vars

\* Lines 300-316: full parameters.
WriteOptimized == WriteAttempt("write_optimized", "optimized", "write_basic")

\* Lines 318-332: basic parameters.
WriteBasic == WriteAttempt("write_basic", "basic", "write_minimal")

\* Lines 334-342: minimal parameters; a failure here leaves build_video.
WriteMinimal == WriteAttempt("write_minimal", "minimal", "raised")

\* The handles a build has opened so far: the image clips (lines 123-129,
\* 179-182), the composed narration (232 / 277), the music (238 / 279), the
\* mix of both (256 / 286) and the concatenated video (219-224 / 269-273).
\* The narration clips belong to the composed narration.
OpenedHandles ==
    (IF clips # <<>> THEN {"clips"} ELSE {})
    \cup (IF final_video.audio # "none" THEN {"base_audio"} ELSE {})
    \cup (IF music \in {"process_failed", "mixed"} THEN {"music"} ELSE {})
    \cup (IF music = "mixed" THEN {"final_audio"} ELSE {})
    \cup (IF final_video.made THEN {"final_video"} ELSE {})

\* Lines 347-367: close() is called on every clip, on base_audio, music and
\* final_audio when these names are bound, and on final_video.
CleanupCloses == OpenedHandles

\* Lines 344-370: the clips and the audio are closed.
Cleanup ==
    /\ pc = "cleanup"
    /\ pc' = "return"
    /\ closed' = CleanupCloses
    /\ UNCHANGED <<images, crossfade_sec, min_scene_seconds, head_pad, tail_pad,
                   use_moviepy, moviepy_version, idx, clips, audio_tracks, timings,
                   current_start, final_video, seg_idx, segment_paths, out_dir_made,
                   tmp_dir_made, video_file, result, error>>
    /\ UNCHANGED <<imports, ffmpeg_on_path, music, writes>>
    /\ UNCHANGED est_vars
    /\ UNCHANGED sub_vars

\* Lines 371-385: without MoviePy, ffmpeg must be on the path.
FfmpegCheck ==
    /\ pc = "loop" /\ idx = Len(images)
    /\ ~use_moviepy
    /\ \E on_path \in BOOLEAN :
        /\ ffmpeg_on_path' = IF on_path THEN "yes" ELSE "no"
        /\ IF on_path
           THEN /\ tmp_dir_made' = TRUE
                /\ pc' = "segments"
                /\ UNCHANGED error
           ELSE /\ Raise("ImportError")
                /\ UNCHANGED tmp_dir_made
    /\ UNCHANGED <<images, crossfade_sec, min_scene_seconds, head_pad, tail_pad,
                   use_moviepy, moviepy_version, idx, clips, audio_tracks, timings,
                   current_start, final_video, seg_idx, segment_paths, out_dir_made,
                   video_file, result>>
    /\ UNCHANGED <<imports, music, writes>>
    /\ UNCHANGED closed
    /\ UNCHANGED est_vars
    /\ UNCHANGED sub_vars

\* The length of a segment (line 390); 50 is the literal 0.5.
SegmentDuration(t) == Max(t.duration, 50)

\* Lines 386-406: one segment; subprocess.run(check=True) raises when ffmpeg
\* fails, which it does on an input it cannot decode: the image, or the
\* narration file when the entry has one (line 398).
RawSegment ==
    /\ pc = "segments" /\ seg_idx < Len(timings)
    /\ LET t == timings[seg_idx + 1]
           readable == \E i \in 1..Len(images) : images[i].n = t.image /\ images[i].ok
       IN \E audio_ok \in (IF t.audio # 0 THEN BOOLEAN ELSE {TRUE}) :
            IF readable /\ audio_ok
            THEN /\ segment_paths' = Append(segment_paths,
                        [scene |-> t.scene, duration |-> SegmentDuration(t)])
                 /\ seg_idx' = seg_idx + 1
                 /\ UNCHANGED <<pc, error>>
            ELSE /\ Raise("CalledProcessError")
                 /\ UNCHANGED <<segment_paths, seg_idx>>
    /\ UNCHANGED <<images, crossfade_sec, min_scene_seconds, head_pad, tail_pad,
                   use_moviepy, moviepy_version, idx, clips, audio_tracks, timings,
                   current_start, final_video, out_dir_made, tmp_dir_made,
                   video_file, result>>
    /\ UNCHANGED <<imports, ffmpeg_on_path, music, writes>>
    /\ UNCHANGED closed
    /\ UNCHANGED est_vars
    /\ UNCHANGED sub_vars

\* The return codes of the concat run: ffmpeg fails on a list file that
\* names no segment.
ConcatReturnCodes(paths) == IF paths = <<>> THEN {1} ELSE {0, 1}

ConcatFailedIgnored(returncode) == FALSE

\* Lines 419-420.
ConcatFailed(returncode) == returncode # 0

\* Lines 408-422: the list file and the concat run.
RawConcat ==
    /\ pc = "segments" /\ seg_idx = Len(timings)
    /\ \E returncode \in ConcatReturnCodes(segment_paths) :
        /\ video_file' \in (IF returncode = 0 THEN {"complete"}
                            ELSE IF segment_paths = <<>> THEN {video_file}
                            ELSE {video_file, "partial"})
        /\ IF ConcatFailed(returncode)
           THEN Raise("concat")
           ELSE pc' = "rmtree" /\ UNCHANGED error
    /\ UNCHANGED <<images, crossfade_sec, min_scene_seconds, head_pad, tail_pad,
                   use_moviepy, moviepy_version, idx, clips, audio_tracks, timings,
                   current_start, final_video, seg_idx, segment_paths, out_dir_made,
                   tmp_dir_made, result>>
    /\ UNCHANGED <<imports, ffmpeg_on_path, music, writes>>
    /\ UNCHANGED closed
    /\ UNCHANGED est_vars
    /\ UNCHANGED sub_vars

\* Lines 424-429: the segments directory is removed, or the failure logged.
RawCleanup ==
    /\ pc = "rmtree"
    /\ tmp_dir_made' \in {FALSE, tmp_dir_made}
    /\ pc' = "return"
    /\ UNCHANGED <<images, crossfade_sec, min_scene_seconds, head_pad, tail_pad,
                   use_moviepy, moviepy_version, idx, clips, audio_tracks, timings,
                   current_start, final_video, seg_idx, segment_paths, out_dir_made,
                   video_file, result, error>>
    /\ UNCHANGED <<imports, ffmpeg_on_path, music, writes>>
    /\ UNCHANGED closed
    /\ UNCHANGED est_vars
    /\ UNCHANGED sub_vars

\* Lines 431-437.
Return ==
    /\ pc = "return"
    /\ result' = [video_path |-> "video_path", timings |-> timings, duration |-> current_start]
    /\ pc' = "done"
    /\ UNCHANGED <<images, crossfade_sec, min_scene_seconds, head_pad, tail_pad,
                   use_moviepy, moviepy_version, idx, clips, audio_tracks, timings,
                   current_start, final_video, seg_idx, segment_paths, out_dir_made,
                   tmp_dir_made, video_file, error>>
    /\ UNCHANGED <<imports, ffmpeg_on_path, music, writes>>
    /\ UNCHANGED closed
    /\ UNCHANGED est_vars
    /\ UNCHANGED sub_vars

Next ==
    \/ SelectBackend
    \/ SceneV2
    \/ SceneV1
    \/ SceneRaw
    \/ ComposeV2
    \/ ComposeV1
    \/ WriteOptimized
    \/ WriteBasic
    \/ WriteMinimal
    \/ Cleanup
    \/ FfmpegCheck
    \/ RawSegment
    \/ RawConcat
    \/ RawCleanup
    \/ Return

Spec == Init /\ [][Next]_vars

\* ------------------------------------------------------------------------
\* _estimate_scene_duration on its own: every combination of inputs
\* ------------------------------------------------------------------------
EstimateInputs ==
    [audio_path: SceneAudioGet(1), min_seconds: MinSeconds, head_pad: Pads, tail_pad: Pads]

InitEstimate ==
    /\ est_args \in EstimateInputs
    /\ est_ret = -1
    /\ images = <<>>
    /\ crossfade_sec = 0
    /\ min_scene_seconds = 0
    /\ head_pad = 0
    /\ tail_pad = 0
    /\ pc = "estimate"
    /\ use_moviepy = FALSE
    /\ moviepy_version = 0
    /\ idx = 0
    /\ clips = <<>>
    /\ audio_tracks = <<>>
    /\ timings = <<>>
    /\ current_start = 0
    /\ final_video = NoVideo
    /\ seg_idx = 0
    /\ segment_paths = <<>>
    /\ out_dir_made = FALSE
    /\ tmp_dir_made = FALSE
    /\ video_file = "absent"
    /\ result = NoResult
    /\ error = "none"
    /\ imports = <<>>
    /\ ffmpeg_on_path = "unknown"
    /\ music = "none"
    /\ writes = <<>>
    /\ closed = {}
    /\ SubsystemsIdle

\* Lines 28-51: one call.
CallEstimate ==
    /\ est_ret = -1
    /\ est_ret' = EstimateSceneDuration(est_args.audio_path, est_args.min_seconds,
                                        est_args.head_pad, est_args.tail_pad)
    /\ UNCHANGED est_args
    /\ UNCHANGED build_vars
    /\ UNCHANGED sub_vars

NextEstimate == CallEstimate

SpecEstimate == InitEstimate /\ [][NextEstimate]_vars

\* ------------------------------------------------------------------------
\* The build and the estimator at rest, for the specifications of the
\* collaborators
\* ------------------------------------------------------------------------
BuildIdle ==
    /\ images = <<>>
    /\ crossfade_sec = 0
    /\ min_scene_seconds = 0
    /\ head_pad = 0
    /\ tail_pad = 0
    /\ pc = "idle"
    /\ use_moviepy = FALSE
    /\ moviepy_version = 0
    /\ idx = 0
    /\ clips = <<>>
    /\ audio_tracks = <<>>
    /\ timings = <<>>
    /\ current_start = 0
    /\ final_video = NoVideo
    /\ seg_idx = 0
    /\ segment_paths = <<>>
    /\ out_dir_made = FALSE
    /\ tmp_dir_made = FALSE
    /\ video_file = "absent"
    /\ result = NoResult
    /\ error = "none"
    /\ imports = <<>>
    /\ ffmpeg_on_path = "unknown"
    /\ music = "none"
    /\ writes = <<>>
    /\ closed = {}

EstimateIdle ==
    /\ est_args = NoEstimate
    /\ est_ret = -1

\* ------------------------------------------------------------------------
\* GeminiImageGenerator.generate_comic_image
\* ------------------------------------------------------------------------
\* output_path as stem and extension (os.path.splitext).
OutputPaths == [stem: {"scene_1"}, ext: {".jpg", ".png", ""}]

SavePathAsGiven(output_path) == output_path

\* Lines 171 and 244: os.path.splitext(output_path)[0] + ".jpg".
SavePath(output_path) == [output_path EXCEPT !.ext = ".jpg"]

GenInputs == [client: BOOLEAN, output_path: OutputPaths, max_retries: 0..MaxRetries]

InitGenerate ==
    /\ gen_args \in GenInputs
    /\ gen_attempt = 1
    /\ gen_requests = 0
    /\ gen_sleeps = <<>>
    /\ gen_last = "none"
    /\ gen_placeholder = "none"
    /\ gen_written = {}
    /\ gen_ret = "none"
    /\ BuildIdle
    /\ EstimateIdle
    /\ TtsIdle
    /\ WikiIdle
    /\ SessIdle
    /\ ConcIdle

\* Lines 226-251: the placeholder is drawn and saved, or anything raised on
\* the way is logged and False returned.
CreatePlaceholderImage(output_path) ==
    \E saved \in BOOLEAN :
        /\ gen_placeholder' = IF saved THEN "written" ELSE "failed"
        /\ gen_written' = IF saved
                          THEN gen_written \cup {[path |-> SavePath(output_path), kind |-> "placeholder"]}
                          ELSE gen_written
        /\ gen_ret' = IF saved THEN "True" ELSE "False"

RetryOnceMore(attempt, max_retries) == attempt <= max_retries

\* Lines 195 and 214.
Retry(attempt, max_retries) == attempt < max_retries

\* Lines 195-204 and 214-224: sleep and recurse with attempt + 1, or fall
\* back to the placeholder.
RetryOrPlaceholder ==
    IF Retry(gen_attempt, gen_args.max_retries)
    THEN /\ gen_sleeps' = Append(gen_sleeps, Pow2(gen_attempt))
         /\ gen_attempt' = gen_attempt + 1
         /\ UNCHANGED <<gen_placeholder, gen_written, gen_ret>>
    ELSE /\ CreatePlaceholderImage(gen_args.output_path)
         /\ UNCHANGED <<gen_sleeps, gen_attempt>>

\* What one request comes to: an image part that is saved; no image part, or
\* image parts none of which can be saved (lines 188-189); an exception
\* whose message names the quota; any other exception.
GenOutcomes == {"image", "no_image", "quota", "error"}

\* Lines 132-224: one frame of generate_comic_image, up to its return or to
\* the recursive call.
GenerateComicImage ==
    /\ gen_ret = "none"
    /\ IF ~gen_args.client
       THEN /\ gen_last' = "client"
            /\ CreatePlaceholderImage(gen_args.output_path)
            /\ UNCHANGED <<gen_requests, gen_sleeps, gen_attempt>>
       ELSE \E outcome \in GenOutcomes :
            /\ gen_requests' = gen_requests + 1
            /\ gen_last' = outcome
            /\ CASE outcome = "image" ->
                      /\ gen_written' = gen_written \cup
                             {[path |-> SavePath(gen_args.output_path), kind |-> "image"]}
                      /\ gen_ret' = "True"
                      /\ UNCHANGED <<gen_placeholder, gen_sleeps, gen_attempt>>
                 [] outcome = "quota" ->
                      /\ CreatePlaceholderImage(gen_args.output_path)
                      /\ UNCHANGED <<gen_sleeps, gen_attempt>>
                 [] OTHER -> RetryOrPlaceholder
    /\ UNCHANGED gen_args
    /\ UNCHANGED gen_rest

NextGenerate == GenerateComicImage

SpecGenerate == InitGenerate /\ [][NextGenerate]_vars

\* The recursion is an ordinary call: a frame that can run does run.
SpecGenerateFair == SpecGenerate /\ WF_vars(GenerateComicImage)
\* ------------------------------------------------------------------------
\* tts_generator.synthesize_to_mp3 and adjust_audio_speed
\* ------------------------------------------------------------------------
\* A path is the sequence of its pieces, the occurrences of ".mp3" apart:
\* scene_1.mp3, scene_1.wav, scene_1, and x.mp3/scene_1.mp3 (a directory
\* whose name holds ".mp3").
TtsOutputPaths ==
    { <<"scene_1", ".mp3">>, <<"scene_1", ".wav">>, <<"scene_1">>,
      <<"x", ".mp3", "/scene_1", ".mp3">> }

\* The directory part of a path.
DirName(path) == IF Len(path) > 2 THEN SubSeq(path, 1, Len(path) - 2) ELSE <<>>

\* Line 105: output_path.replace('.mp3', '_temp.mp3') replaces every
\* occurrence, and none when there is none.
TempPath(output_path) ==
    [i \in 1..Len(output_path) |->
        IF output_path[i] = ".mp3" THEN "_temp.mp3" ELSE output_path[i]]

\* speed = 1.0 is 1000.
TtsSpeeds == {800, 1000, 1005, 1250}

\* Line 104.
NeedsAdjust(speed) ==
    speed # 1000 /\ (IF speed >= 1000 THEN speed - 1000 ELSE 1000 - speed) > 10

Exists(files, path) == \E f \in files : f.path = path

WriteFile(files, path, content) ==
    {f \in files : f.path # path} \cup {[path |-> path, content |-> content]}

RemoveFile(files, path) == {f \in files : f.path # path}

InitTts ==
    /\ tts_args \in [output_path: TtsOutputPaths, speed: TtsSpeeds, pydub: BOOLEAN]
    /\ tts_pc = "start"
    /\ tts_files = {}
    /\ tts_success = "none"
    /\ BuildIdle
    /\ EstimateIdle
    /\ GenIdle
    /\ WikiIdle
    /\ SessIdle
    /\ ConcIdle

\* Lines 97-107 and 121-128: the directory of output_path is made, the
\* speech is built and saved, to the temporary file when the speed is to be
\* adjusted; saving raises when gTTS fails or the directory of the file
\* does not exist.
TtsSave ==
    /\ tts_pc = "start"
    /\ LET output_path == tts_args.output_path
           temp_path == TempPath(output_path)
       IN \E saved \in BOOLEAN :
            IF NeedsAdjust(tts_args.speed)
            THEN IF saved /\ DirName(temp_path) = DirName(output_path)
                 THEN /\ tts_files' = WriteFile(tts_files, temp_path, "speech")
                      /\ tts_pc' = "adjust"
                 ELSE /\ tts_pc' = "raised"
                      /\ UNCHANGED tts_files
            ELSE IF saved
                 THEN /\ tts_files' = WriteFile(tts_files, output_path, "speech")
                      /\ tts_pc' = "returned"
                 ELSE /\ tts_pc' = "raised"
                      /\ UNCHANGED tts_files
    /\ UNCHANGED <<tts_args, tts_success>>
    /\ UNCHANGED tts_rest

\* Lines 43 and 77: shutil.copy2 raises SameFileError when both paths name
\* one file, and may fail otherwise.
Copy2(input_path, output_path) == IF input_path = output_path THEN {FALSE} ELSE BOOLEAN

\* Lines 25-81 (called at line 110): the speed is changed with pydub, or the
\* file copied as it is when pydub is missing or fails.
TtsAdjust ==
    /\ tts_pc = "adjust"
    /\ LET output_path == tts_args.output_path
           temp_path == TempPath(output_path)
       IN \E exported \in (IF tts_args.pydub THEN BOOLEAN ELSE {FALSE}),
             copied \in Copy2(temp_path, output_path) :
            IF exported
            THEN /\ tts_files' = WriteFile(tts_files, output_path, "adjusted")
                 /\ tts_success' = "adjusted"
            ELSE IF copied
            THEN /\ tts_files' = WriteFile(tts_files, output_path, "speech")
                 /\ tts_success' = "copied"
            ELSE /\ tts_success' = "failed"
                 /\ UNCHANGED tts_files
    /\ tts_pc' = "remove"
    /\ UNCHANGED tts_args
    /\ UNCHANGED tts_rest

\* Lines 112-120: the temporary file is removed when it exists, a failure
\* of the removal is ignored; then the call raises when the adjustment
\* returned False.
TtsRemoveTemp ==
    /\ tts_pc = "remove"
    /\ LET temp_path == TempPath(tts_args.output_path)
       IN \E removed \in BOOLEAN :
            tts_files' = IF Exists(tts_files, temp_path) /\ removed
                         THEN RemoveFile(tts_files, temp_path)
                         ELSE tts_files
    /\ tts_pc' = IF tts_success = "failed" THEN "raised" ELSE "returned"
    /\ UNCHANGED <<tts_args, tts_success>>
    /\ UNCHANGED tts_rest

NextTts ==
    \/ TtsSave
    \/ TtsAdjust
    \/ TtsRemoveTemp

SpecTts == InitTts /\ [][NextTts]_vars

\* ------------------------------------------------------------------------
\* WikipediaExtractor.search_wikipedia and get_page_info
\* ------------------------------------------------------------------------
\* A query is the sequence of its characters.
WikiQueries == { <<>>, <<" ">>, <<"q">>, <<" ", "q", " ">> }

\* str.strip().
RECURSIVE LStrip(_)
LStrip(str) == IF str # <<>> /\ Head(str) = " " THEN LStrip(Tail(str)) ELSE str

RECURSIVE RStrip(_)
RStrip(str) ==
    IF str # <<>> /\ str[Len(str)] = " " THEN RStrip(SubSeq(str, 1, Len(str) - 1)) ELSE str

Strip(str) == RStrip(LStrip(str))

\* Line 75: not query or not query.strip().
InvalidQuery(query) == query = <<>> \/ Strip(query) = <<>>

KeepTryingOnceMore(attempt, retries) == attempt <= retries

\* Lines 83 and 123: while attempt < retries.
KeepTrying(attempt, retries) == attempt < retries

\* Lines 98-102 and 167-171: the attempt is counted, then the sleep.
ConnectionErrorCaught ==
    /\ wiki_attempt' = wiki_attempt + 1
    /\ wiki_sleeps' = Append(wiki_sleeps, Pow2(wiki_attempt + 1))
    /\ UNCHANGED wiki_ret

InitWiki ==
    /\ wiki_args \in [fn: {"search", "page"}, query: WikiQueries, retries: (-1)..MaxRetries]
    /\ wiki_attempt = 0
    /\ wiki_passes = 0
    /\ wiki_calls = 0
    /\ wiki_sleeps = <<>>
    /\ wiki_last = "none"
    /\ wiki_ret = "none"
    /\ BuildIdle
    /\ EstimateIdle
    /\ GenIdle
    /\ TtsIdle
    /\ SessIdle
    /\ ConcIdle

\* What one pass of search_wikipedia comes to: results; no result and a
\* suggestion; no result and none; ConnectionError; any other exception
\* (of wikipedia.search or of wikipedia.suggest).
SearchOutcomes == {"results", "suggestion", "nothing", "ConnectionError", "Exception"}

\* Lines 63-107: search_wikipedia up to its return or to the end of a pass.
SearchWikipedia ==
    /\ wiki_args.fn = "search"
    /\ wiki_ret = "none"
    /\ IF InvalidQuery(wiki_args.query)
       THEN /\ wiki_ret' = "Please enter a valid search term."
            /\ UNCHANGED <<wiki_attempt, wiki_passes, wiki_calls, wiki_sleeps, wiki_last>>
       ELSE IF ~KeepTrying(wiki_attempt, wiki_args.retries)
       THEN /\ wiki_ret' = "Failed to connect"
            /\ UNCHANGED <<wiki_attempt, wiki_passes, wiki_calls, wiki_sleeps, wiki_last>>
       ELSE \E outcome \in SearchOutcomes :
            /\ wiki_passes' = wiki_passes + 1
            /\ wiki_last' = outcome
            /\ wiki_calls' \in (IF outcome \in {"suggestion", "nothing"}
                                THEN {wiki_calls + 2}
                                ELSE IF outcome = "results" THEN {wiki_calls + 1}
                                ELSE {wiki_calls + 1, wiki_calls + 2})
            /\ CASE outcome = "results" ->
                      wiki_ret' = "results" /\ UNCHANGED <<wiki_attempt, wiki_sleeps>>
                 [] outcome = "suggestion" ->
                      wiki_ret' = "Did you mean" /\ UNCHANGED <<wiki_attempt, wiki_sleeps>>
                 [] outcome = "nothing" ->
                      wiki_ret' = "No results found" /\ UNCHANGED <<wiki_attempt, wiki_sleeps>>
                 [] outcome = "ConnectionError" -> ConnectionErrorCaught
                 [] outcome = "Exception" ->
                      wiki_ret' = "An error occurred while searching"
                      /\ UNCHANGED <<wiki_attempt, wiki_sleeps>>
    /\ UNCHANGED wiki_args
    /\ UNCHANGED wiki_rest

\* What one pass of get_page_info comes to: the page under its exact title;
\* a disambiguation; PageError and then the page found with auto-suggest,
\* or anything raised by that second lookup; ConnectionError; any other
\* exception (of the lookup, of the page's properties or of the save).
PageOutcomes == {"page", "DisambiguationError", "PageError_page", "PageError_error",
                 "ConnectionError", "Exception"}

\* Lines 109-182: get_page_info up to its return or to the end of a pass.
GetPageInfo ==
    /\ wiki_args.fn = "page"
    /\ wiki_ret = "none"
    /\ IF ~KeepTrying(wiki_attempt, wiki_args.retries)
       THEN /\ wiki_ret' = "Connection Error"
            /\ UNCHANGED <<wiki_attempt, wiki_passes, wiki_calls, wiki_sleeps, wiki_last>>
       ELSE \E outcome \in PageOutcomes :
            /\ wiki_passes' = wiki_passes + 1
            /\ wiki_last' = outcome
            /\ wiki_calls' \in (IF outcome \in {"PageError_page", "PageError_error"}
                                THEN {wiki_calls + 2}
                                ELSE IF outcome \in {"page", "DisambiguationError"}
                                THEN {wiki_calls + 1}
                                ELSE {wiki_calls + 1, wiki_calls + 2})
            /\ CASE outcome \in {"page", "PageError_page"} ->
                      wiki_ret' = "page_info" /\ UNCHANGED <<wiki_attempt, wiki_sleeps>>
                 [] outcome = "DisambiguationError" ->
                      wiki_ret' = "Disambiguation Error" /\ UNCHANGED <<wiki_attempt, wiki_sleeps>>
                 [] outcome = "PageError_error" ->
                      wiki_ret' = "Page Error" /\ UNCHANGED <<wiki_attempt, wiki_sleeps>>
                 [] outcome = "ConnectionError" -> ConnectionErrorCaught
                 [] outcome = "Exception" ->
                      wiki_ret' = "General Error" /\ UNCHANGED <<wiki_attempt, wiki_sleeps>>
    /\ UNCHANGED wiki_args
    /\ UNCHANGED wiki_rest

NextWiki ==
    \/ SearchWikipedia
    \/ GetPageInfo

SpecWiki == InitWiki /\ [][NextWiki]_vars

\* The loop is sequential code: a pass that can run does run.
SpecWikiFair == SpecWiki /\ WF_vars(NextWiki)

\* ------------------------------------------------------------------------
\* The driver: one Streamlit session of final.py.  Each action is one run
\* of the script with one button pressed, the rerun it asks for included.
\* ------------------------------------------------------------------------
Topics == 1..MaxTopics

\* Lines 682-686: get_page_info of the selected topic: the page, a
\* disambiguation with options, or another error value.
FetchedPages(topic) ==
    { [title |-> topic, kind |-> "page"],
      [title |-> 0, kind |-> "options"],
      [title |-> 0, kind |-> "error"] }

\* The conditions under which the script reaches each button.
ResultsShown(s) == s.search_results # {}                              \* line 659

StorylineOffered(s) ==                                                \* lines 677-716
    /\ ResultsShown(s)
    /\ s.selected_topic # 0
    /\ s.page_info.kind \in {"page", "loaded"}
    /\ s.storyline = 0

PromptsOffered(s) ==                                                  \* lines 734, 749
    ResultsShown(s) /\ s.storyline # 0 /\ s.scene_prompts = 0

ImagesOffered(s) ==                                                   \* lines 773, 808
    ResultsShown(s) /\ s.scene_prompts # 0 /\ s.comic_images = 0

NarrationOfferedUnsaved(s) ==
    s.comic_images # 0 /\ s.narrations = 0

NarrationOffered(s) ==                                                \* lines 871, 875
    s.story_saved /\ s.comic_images # 0 /\ s.narrations = 0

AudioOffered(s) ==                                                    \* lines 871, 889, 901
    s.story_saved /\ s.comic_images # 0 /\ s.narrations # 0 /\ s.audio_paths = 0

VideoOffered(s) ==                                                    \* lines 871, 937
    s.story_saved /\ s.comic_images # 0 /\ s.audio_paths # 0

\* Lines 459 and 937: the test made right before build_video.
AssetsReady(s) == s.comic_images # 0 /\ s.audio_paths # 0

InitSession ==
    /\ session = SessionInit
    /\ sess_disk \in SUBSET Topics
    /\ sess_build = NoBuild
    /\ sess_last = "none"
    /\ BuildIdle
    /\ EstimateIdle
    /\ GenIdle
    /\ TtsIdle
    /\ WikiIdle
    /\ ConcIdle

\* A run that does not reach build_video.
Handled(button) ==
    /\ sess_last' = button
    /\ sess_build' = NoBuild
    /\ UNCHANGED sess_rest

\* A run of one of the two video buttons.
HandledVideo(button) ==
    /\ sess_last' = button
    /\ UNCHANGED sess_rest

\* Lines 464-478 and 950-964: build_video is called with the images and the
\* audio of the session; final_video is set when it returns.
CallBuildVideo(title) ==
    /\ sess_build' = [images |-> session.comic_images, audio |-> session.audio_paths]
    /\ \E returned \in BOOLEAN :
         session' = IF returned THEN [session EXCEPT !.final_video = title] ELSE session

\* Lines 611-614: every key is deleted; the rerun initialises the state.
StartOver ==
    /\ session' = SessionInit
    /\ UNCHANGED sess_disk
    /\ Handled("start_over")

\* Lines 639-656: a search that returns a list (a string is only shown).
Search ==
    /\ \E found \in SUBSET Topics :
         session' = IF found = {} THEN session
                    ELSE [session EXCEPT !.search_results = found,
                                         !.selected_topic = 0,
                                         !.page_info = NoPage,
                                         !.storyline = 0,
                                         !.scene_prompts = 0,
                                         !.comic_images = 0]
    /\ UNCHANGED sess_disk
    /\ Handled("search")

\* Lines 664-674, and 682-686 in the rerun.
SelectResult ==
    /\ ResultsShown(session)
    /\ \E topic \in session.search_results : \E page \in FetchedPages(topic) :
         session' = [session EXCEPT !.selected_topic = topic,
                                    !.page_info = page,
                                    !.storyline = 0,
                                    !.scene_prompts = 0,
                                    !.comic_images = 0,
                                    !.narrations = 0,
                                    !.audio_paths = 0]
    /\ UNCHANGED sess_disk
    /\ Handled("select")

\* Lines 693-704, and 682-686 in the rerun.
ChooseOption ==
    /\ ResultsShown(session)
    /\ session.selected_topic # 0
    /\ session.page_info.kind = "options"
    /\ \E topic \in Topics : \E page \in FetchedPages(topic) :
         session' = [session EXCEPT !.selected_topic = topic,
                                    !.page_info = page,
                                    !.storyline = 0,
                                    !.scene_prompts = 0,
                                    !.comic_images = 0]
    /\ UNCHANGED sess_disk
    /\ Handled("option")

\* Lines 715-731; page_info["content"] raises on the page_info of a loaded
\* topic, which holds a title only.
GenerateStoryline ==
    /\ StorylineOffered(session)
    /\ \E generated \in BOOLEAN :
         session' = IF generated /\ session.page_info.kind = "page"
                    THEN [session EXCEPT !.storyline = session.page_info.title,
                                         !.scene_prompts = 0,
                                         !.comic_images = 0,
                                         !.story_saved = FALSE,
                                         !.narrations = 0,
                                         !.audio_paths = 0]
                    ELSE session
    /\ UNCHANGED sess_disk
    /\ Handled("storyline")

\* Lines 749-770: the prompts are generated (the list may be empty), then
\* the story content is saved; a failure of the save leaves story_saved.
GenerateScenePrompts ==
    /\ PromptsOffered(session)
    /\ \E generated \in {"prompts", "empty", "raises"}, saved \in BOOLEAN :
         session' = IF generated = "raises"
                    THEN session
                    ELSE [session EXCEPT
                            !.scene_prompts = IF generated = "prompts" THEN session.storyline ELSE 0,
                            !.comic_images = 0,
                            !.story_saved = IF saved THEN TRUE ELSE @]
    /\ UNCHANGED sess_disk
    /\ Handled("prompts")

\* Lines 808-850: generate_comic_strip returns the images written (maybe
\* none), under the directory of the title.
GenerateImages ==
    /\ ImagesOffered(session)
    /\ \E generated \in {"images", "empty", "raises"} :
         /\ session' = IF generated = "raises" \/ session.page_info.title = 0
                       THEN session
                       ELSE [session EXCEPT
                               !.comic_images = IF generated = "images"
                                                THEN session.scene_prompts ELSE 0]
         /\ sess_disk' = IF generated = "images" /\ session.page_info.title # 0
                         THEN sess_disk \cup {session.page_info.title}
                         ELSE sess_disk
    /\ Handled("images")

\* Lines 875-888: len(scene_prompts) and page_info["title"] raise on None.
GenerateNarrations ==
    /\ NarrationOffered(session)
    /\ \E generated \in BOOLEAN :
         session' = IF generated /\ session.scene_prompts # 0 /\ session.page_info.title # 0
                    THEN [session EXCEPT !.narrations = session.page_info.title]
                    ELSE session
    /\ UNCHANGED sess_disk
    /\ Handled("narrations")

\* Lines 901-921: generate_scene_audios returns the files made (maybe none).
GenerateAudio ==
    /\ AudioOffered(session)
    /\ \E generated \in BOOLEAN :
         session' = IF generated /\ session.page_info.title # 0
                    THEN [session EXCEPT !.audio_paths = session.narrations]
                    ELSE session
    /\ UNCHANGED sess_disk
    /\ Handled("audio")

\* Lines 937-980.
GenerateFinalVideo ==
    /\ VideoOffered(session)
    /\ IF AssetsReady(session) /\ session.page_info.title # 0
       THEN CallBuildVideo(session.page_info.title)
       ELSE UNCHANGED session /\ sess_build' = NoBuild
    /\ UNCHANGED sess_disk
    /\ HandledVideo("video")

\* Lines 435-443: the images of a topic on disk are loaded.
LoadImagesOnly ==
    /\ \E reuse_topic \in sess_disk, imgs \in BOOLEAN :
         session' = IF imgs
                    THEN [session EXCEPT !.comic_images = reuse_topic,
                                         !.selected_topic = reuse_topic,
                                         !.page_info = [title |-> reuse_topic, kind |-> "loaded"]]
                    ELSE session
    /\ UNCHANGED sess_disk
    /\ Handled("load_images")

\* Lines 445-456: the same, with the audio files found for the topic.
LoadImagesAndAudio ==
    /\ \E reuse_topic \in sess_disk, imgs \in BOOLEAN, auds \in BOOLEAN :
         session' = IF imgs
                    THEN [session EXCEPT !.comic_images = reuse_topic,
                                         !.selected_topic = reuse_topic,
                                         !.page_info = [title |-> reuse_topic, kind |-> "loaded"],
                                         !.audio_paths = IF auds THEN reuse_topic ELSE @]
                    ELSE session
    /\ UNCHANGED sess_disk
    /\ Handled("load_images_audio")

\* Lines 458-484: page_info.get raises on None, and falls back to the
\* topic of the select box when the page_info holds no title.
GenerateVideoNow ==
    /\ \E reuse_topic \in sess_disk :
         IF AssetsReady(session) /\ session.page_info.kind # "None"
         THEN CallBuildVideo(IF session.page_info.title # 0
                             THEN session.page_info.title ELSE reuse_topic)
         ELSE UNCHANGED session /\ sess_build' = NoBuild
    /\ UNCHANGED sess_disk
    /\ HandledVideo("video_now")

NextSession ==
    \/ StartOver
    \/ Search
    \/ SelectResult
    \/ ChooseOption
    \/ GenerateStoryline
    \/ GenerateScenePrompts
    \/ GenerateImages
    \/ GenerateNarrations
    \/ GenerateAudio
    \/ GenerateFinalVideo
    \/ LoadImagesOnly
    \/ LoadImagesAndAudio
    \/ GenerateVideoNow

SpecSession == InitSession /\ [][NextSession]_vars

\* ------------------------------------------------------------------------
\* Two calls of build_video at the same time, on one file system.  Nothing
\* in build_video takes a lock or makes a name unique to the call, so the
\* steps of the two calls interleave freely.
\* ------------------------------------------------------------------------
Builds == {1, 2}

OutDirs == {"d1", "d2"}

\* A title is the sequence of its characters.
Titles == { <<"a", "/", "b">>, <<"a", "_", "b">>, <<"c">> }

\* Line 100: title.replace('/', '_').
SafeTitle(title) == [i \in 1..Len(title) |-> IF title[i] = "/" THEN "_" ELSE title[i]]

\* A path: the output directory, the sub-directory and the pieces of the
\* file name.
\* Line 101.
VideoPath(out_dir, title) ==
    [dir |-> out_dir, sub |-> "", name |-> SafeTitle(title) \o <<".mp4">>]

\* Line 309.
TempAudioFile(out_dir) == [dir |-> out_dir, sub |-> "", name |-> <<"temp-audio.m4a">>]

TmpDirOfAnyOutDir(out_dir) == [dir |-> "", sub |-> "_segments", name |-> <<>>]

\* Line 381.
TmpDir(out_dir) == [dir |-> out_dir, sub |-> "_segments", name |-> <<>>]

\* Line 391: seg_<scene, two digits>.mp4 under the segments directory.
SegPath(out_dir, scene) ==
    [TmpDir(out_dir) EXCEPT
        !.name = <<"seg_" \o (IF scene < 10 THEN "0" ELSE "") \o ToString(scene) \o ".mp4">>]

\* Line 409.
ListFile(out_dir) == [TmpDir(out_dir) EXCEPT !.name = <<"concat.txt">>]

\* The build that wrote the file at a path; 0 when there is no such file.
Owner(files, path) ==
    IF Exists(files, path) THEN (CHOOSE f \in files : f.path = path).content ELSE 0

\* Line 426: shutil.rmtree removes the directory and all it holds.
Rmtree(files, tmp_dir) ==
    {f \in files : ~(f.path.dir = tmp_dir.dir /\ f.path.sub = tmp_dir.sub)}

InitConcurrent ==
    /\ b_args \in [Builds -> [out_dir: OutDirs, title: Titles, use_moviepy: BOOLEAN]]
    /\ b_pc = [b \in Builds |-> "start"]
    /\ b_seg = [b \in Builds |-> 0]
    /\ b_read = [b \in Builds |-> {}]
    /\ fs = {}
    /\ BuildIdle
    /\ EstimateIdle
    /\ GenIdle
    /\ TtsIdle
    /\ WikiIdle
    /\ SessIdle

\* Lines 99, 302-312: write_videofile first writes the audio of the video
\* to temp_audiofile.
CWriteAudio(b) ==
    /\ b_pc[b] = "start"
    /\ b_args[b].use_moviepy
    /\ fs' = WriteFile(fs, TempAudioFile(b_args[b].out_dir), b)
    /\ b_pc' = [b_pc EXCEPT ![b] = "write_video"]
    /\ UNCHANGED <<b_args, b_seg, b_read>>
    /\ UNCHANGED conc_rest

\* Lines 302-342: the video is encoded to video_path with the audio found in
\* temp_audiofile.  Without that file the attempt fails; the later attempts
\* of the ladder use another temporary name and may succeed.
CWriteVideo(b) ==
    /\ b_pc[b] = "write_video"
    /\ LET temp == TempAudioFile(b_args[b].out_dir)
           video_path == VideoPath(b_args[b].out_dir, b_args[b].title)
       IN IF Exists(fs, temp)
          THEN /\ fs' = WriteFile(fs, video_path, b)
               /\ b_read' = [b_read EXCEPT ![b] = {Owner(fs, temp)}]
               /\ b_pc' = [b_pc EXCEPT ![b] = "remove_temp"]
          ELSE \E written \in BOOLEAN :
               IF written
               THEN /\ fs' = WriteFile(fs, video_path, b)
                    /\ b_read' = [b_read EXCEPT ![b] = {b}]
                    /\ b_pc' = [b_pc EXCEPT ![b] = "done"]
               ELSE /\ b_pc' = [b_pc EXCEPT ![b] = "raised"]
                    /\ UNCHANGED <<fs, b_read>>
    /\ UNCHANGED <<b_args, b_seg>>
    /\ UNCHANGED conc_rest

\* Line 310: remove_temp=True.
CRemoveTemp(b) ==
    /\ b_pc[b] = "remove_temp"
    /\ fs' = RemoveFile(fs, TempAudioFile(b_args[b].out_dir))
    /\ b_pc' = [b_pc EXCEPT ![b] = "done"]
    /\ UNCHANGED <<b_args, b_seg, b_read>>
    /\ UNCHANGED conc_rest

\* Lines 99, 381-383: the segments directory is made if it is not there.
CMakeTmpDir(b) ==
    /\ b_pc[b] = "start"
    /\ ~b_args[b].use_moviepy
    /\ fs' = WriteFile(fs, TmpDir(b_args[b].out_dir), 0)
    /\ b_pc' = [b_pc EXCEPT ![b] = "segments"]
    /\ UNCHANGED <<b_args, b_seg, b_read>>
    /\ UNCHANGED conc_rest

\* Lines 386-406: ffmpeg -y writes the segment of the next scene, over any
\* file of that name; it fails when the directory is gone.
CSegment(b) ==
    /\ b_pc[b] = "segments"
    /\ b_seg[b] < MaxSegments
    /\ IF Exists(fs, TmpDir(b_args[b].out_dir))
       THEN /\ fs' = WriteFile(fs, SegPath(b_args[b].out_dir, b_seg[b] + 1), b)
            /\ b_seg' = [b_seg EXCEPT ![b] = @ + 1]
            /\ UNCHANGED b_pc
       ELSE /\ b_pc' = [b_pc EXCEPT ![b] = "raised"]
            /\ UNCHANGED <<fs, b_seg>>
    /\ UNCHANGED <<b_args, b_read>>
    /\ UNCHANGED conc_rest

\* Lines 408-420: the list file is written and the concat run reads the
\* segments it names into video_path; open raises when the directory is
\* gone, the run fails when a segment is.
CConcat(b) ==
    /\ b_pc[b] = "segments"
    /\ b_seg[b] = MaxSegments
    /\ LET out_dir == b_args[b].out_dir
           segs == { SegPath(out_dir, scene) : scene \in 1..MaxSegments }
       IN IF ~Exists(fs, TmpDir(out_dir))
          THEN /\ b_pc' = [b_pc EXCEPT ![b] = "raised"]
               /\ UNCHANGED <<fs, b_read>>
          ELSE IF \E seg \in segs : ~Exists(fs, seg)
          THEN /\ fs' = WriteFile(fs, ListFile(out_dir), b)
               /\ b_pc' = [b_pc EXCEPT ![b] = "raised"]
               /\ UNCHANGED b_read
          ELSE /\ fs' = WriteFile(WriteFile(fs, ListFile(out_dir), b),
                                  VideoPath(out_dir, b_args[b].title), b)
               /\ b_read' = [b_read EXCEPT ![b] = { Owner(fs, seg) : seg \in segs }]
               /\ b_pc' = [b_pc EXCEPT ![b] = "rmtree"]
    /\ UNCHANGED <<b_args, b_seg>>
    /\ UNCHANGED conc_rest

\* Lines 424-429.
CRmtree(b) ==
    /\ b_pc[b] = "rmtree"
    /\ fs' = Rmtree(fs, TmpDir(b_args[b].out_dir))
    /\ b_pc' = [b_pc EXCEPT ![b] = "done"]
    /\ UNCHANGED <<b_args, b_seg, b_read>>
    /\ UNCHANGED conc_rest

NextConcurrent ==
    \/ \E b \in Builds : CWriteAudio(b)
    \/ \E b \in Builds : CWriteVideo(b)
    \/ \E b \in Builds : CRemoveTemp(b)
    \/ \E b \in Builds : CMakeTmpDir(b)
    \/ \E b \in Builds : CSegment(b)
    \/ \E b \in Builds : CConcat(b)
    \/ \E b \in Builds : CRmtree(b)

SpecConcurrent == InitConcurrent /\ [][NextConcurrent]_vars

\* ========================================================================
\* Properties
\* ========================================================================
Starts(ts) == [i \in 1..Len(ts) |-> ts[i].start]
SceneDurations(ts) == [i \in 1..Len(ts) |-> ts[i].duration]
Overlap == IF crossfade_sec > 0 THEN crossfade_sec ELSE 0

C2_TotalDuration ==
    pc = "done" =>
        result.duration = SumDuration(result.timings)
                          - crossfade_sec * (Len(result.timings) - 1)

\* C3: _estimate_scene_duration returns for every input, and returns
\* min_seconds when there is no path or no file, max(min_seconds, d + pads)
\* when some decoder measures the length d, and max(min_seconds, pads) when
\* the file exists and no decoder measures it.
C3_EstimateCases ==
    LET a == est_args.audio_path
        m == est_args.min_seconds
        pads == est_args.head_pad + est_args.tail_pad
        measured == a.pydub \/ a.mp2 \/ a.mp1
    IN /\ est_ret = -1 => ENABLED CallEstimate
       /\ est_ret # -1 =>
            /\ (a.path = 0 \/ ~a.exists) => est_ret = m
            /\ (a.path # 0 /\ a.exists /\ measured) =>
                  /\ est_ret >= m /\ est_ret >= a.d + pads
                  /\ est_ret \in {m, a.d + pads}
            /\ (a.path # 0 /\ a.exists /\ ~measured) =>
                  /\ est_ret >= m /\ est_ret >= pads
                  /\ est_ret \in {m, pads}

C3_Witness ==
    /\ est_ret # -1
    /\ est_args.audio_path.exists
    /\ ~est_args.audio_path.pydub /\ ~est_args.audio_path.mp2 /\ est_args.audio_path.mp1
    /\ est_ret = est_args.audio_path.d + est_args.head_pad + est_args.tail_pad
    /\ est_ret > est_args.min_seconds

\* C4: every timing entry of a build has a duration of at least
\* min_scene_seconds, whatever the narration file of the scene.
C4_DurationAtLeastMin ==
    \A i \in 1..Len(timings) : timings[i].duration >= min_scene_seconds

C4_Witness ==
    \E i \in 1..Len(timings) :
        /\ timings[i].audio # 0
        /\ timings[i].duration = min_scene_seconds
        /\ \E j \in 1..Len(timings) : timings[j].duration > min_scene_seconds

TimingsWellFormed ==
    \A i \in 1..Len(timings) : timings[i].end = timings[i].start + timings[i].duration

TimingsKept ==
    /\ Len(timings') >= Len(timings)
    /\ \A i \in 1..Len(timings) : timings'[i] = timings[i]

\* C5: every timing entry satisfies end = start + duration, and no step of
\* the build (scene loop, composition, write, segments, return) changes or
\* removes an entry once it is appended.
C5_EntriesWellFormedAndKept ==
    []TimingsWellFormed /\ [][TimingsKept]_vars

C5_Witness ==
    /\ pc = "done"
    /\ crossfade_sec > 0
    /\ Len(segment_paths) >= 2
    /\ result.timings = timings

\* C6: every timing entry has start, end and duration >= 0 and the starts
\* never decrease with the scene number, for any crossfade_sec >= 0.
C6_NonNegativeAndOrdered ==
    \A i \in 1..Len(timings) :
        /\ timings[i].start >= 0
        /\ timings[i].end >= 0
        /\ timings[i].duration >= 0
        /\ i > 1 => timings[i].start >= timings[i - 1].start

\* C7: with crossfade_sec > 0 and more than one scene, the reported total
\* duration is strictly less than the sum of the scene durations.
C7_TotalBelowSum ==
    (pc = "done" /\ crossfade_sec > 0 /\ Len(result.timings) > 1)
        => result.duration < SumDuration(result.timings)

C7_Witness ==
    /\ pc = "done"
    /\ crossfade_sec > 0
    /\ Len(result.timings) > 1
    /\ result.duration > 0

Readable(n) == \E i \in 1..Len(images) : images[i].n = n /\ images[i].ok

\* C8: a scene with an unreadable image is skipped on every backend: the
\* build does not raise because of it, it gets no timing entry, and a build
\* that returns has one entry per readable image.
C8_UnreadableImageSkipped ==
    /\ pc = "raised" => error # "image_clip"
    /\ (pc = "raised" /\ error = "CalledProcessError") => Readable(timings[seg_idx + 1].image)
    /\ \A i \in 1..Len(timings) : Readable(timings[i].image)
    /\ pc = "done" =>
          Len(result.timings) = Cardinality({i \in 1..Len(images) : images[i].ok})

\* C9: every image is reported under the index n of its file name scene_<n>
\* and is paired with the narration keyed scene_<n> or with none.
C9_IndicesPreserved ==
    \A i \in 1..Len(timings) :
        /\ timings[i].scene = timings[i].image
        /\ timings[i].audio \in {0, timings[i].image}

ClipOf(scene_num) == CHOOSE i \in 1..Len(clips) : clips[i].scene = scene_num

\* C11: under MoviePy, every narration clip starts in the audio track at the
\* offset at which the image clip of its scene starts in the concatenated
\* video.
C11_NarrationStartsWithClip ==
    (use_moviepy /\ final_video.made) =>
        \A k \in 1..Len(audio_tracks) :
            audio_tracks[k].start = final_video.starts[ClipOf(audio_tracks[k].scene)]

\* C12: under MoviePy, a timing entry has a non-null audio field exactly
\* when the narration clip of its scene was loaded and placed on the audio
\* track at the entry's start.
C12_AudioFieldIffTrackPlaced ==
    use_moviepy =>
        \A i \in 1..Len(timings) :
            (timings[i].audio # 0) <=>
                \E k \in 1..Len(audio_tracks) :
                    /\ audio_tracks[k].scene = timings[i].scene
                    /\ audio_tracks[k].start = timings[i].start

\* C13: no backend aborts the build because of a narration file: a segment
\* run that raises does so for a scene whose image cannot be read.
C13_NarrationNeverAborts ==
    (pc = "raised" /\ error = "CalledProcessError")
        => ~Readable(timings[seg_idx + 1].image)

NoUsableAudio == \A i \in 1..Len(timings) : timings[i].audio = 0

\* C14: as long as no scene has a usable narration file, every scene lasts
\* min_scene_seconds, no narration clip is placed, the video gets no audio
\* track, and no backend stops for the lack of audio (a segment run fails
\* for an unreadable image only).
C14_SilentBuild ==
    NoUsableAudio =>
        /\ \A i \in 1..Len(timings) : timings[i].duration = min_scene_seconds
        /\ audio_tracks = <<>>
        /\ final_video.audio = "none"
        /\ music = "none"
        /\ (pc = "raised" /\ error = "CalledProcessError")
              => ~Readable(timings[seg_idx + 1].image)

C14_Witness ==
    /\ pc = "done"
    /\ NoUsableAudio
    /\ ~use_moviepy
    /\ Len(segment_paths) >= 2
    /\ video_file = "complete"

C16_TierOrderNoUncaughtError ==
    /\ pc # "import" =>
          /\ (use_moviepy /\ moviepy_version = 2) <=> imports[1] = "ok"
          /\ (use_moviepy /\ moviepy_version = 1) <=>
                (Len(imports) = 2 /\ imports[1] # "ok" /\ imports[2] = "ok")
          /\ imports[1] # "ok" => Len(imports) = 2
    /\ pc \in {"segments", "rmtree"} => (~use_moviepy /\ ffmpeg_on_path = "yes")
    /\ ffmpeg_on_path = "no" <=> (pc = "raised" /\ error = "ImportError")
    /\ ~(pc = "raised" /\ error = "import")

\* C17: when no backend is available, the configuration error is raised
\* before the output directory is created and before any scene is timed.
C17_UnavailableFailsFast ==
    (pc = "raised" /\ error = "ImportError") =>
        /\ ~out_dir_made
        /\ idx = 0
        /\ timings = <<>>

BackendMatchesWork ==
    /\ (clips # <<>> \/ final_video.made \/ writes # <<>>) => use_moviepy
    /\ (segment_paths # <<>> \/ tmp_dir_made \/ ffmpeg_on_path # "unknown") => ~use_moviepy

BackendKept ==
    pc # "import" =>
        /\ use_moviepy' = use_moviepy
        /\ moviepy_version' = moviepy_version

\* C18: once selected, use_moviepy and moviepy_version never change during
\* the build, and clips, composition and writes exist only under MoviePy,
\* segments only under the raw tool.
C18_BackendNeverChanges ==
    []BackendMatchesWork /\ [][BackendKept]_vars

C18_Witness ==
    /\ pc = "done"
    /\ use_moviepy
    /\ moviepy_version = 1
    /\ Len(clips) >= 2
    /\ Len(writes) >= 2

LadderErrors == {"image_clip", "concatenate", WriteError("optimized", "basic", "minimal")}

\* C19: a build over readable images that fails because a ladder of a
\* MoviePy tier is exhausted has gone down to the last tier first: the raw
\* tool has been tried.
C19_ExhaustedLadderEscalates ==
    (/\ pc = "raised" /\ error \in LadderErrors
     /\ images # <<>> /\ \A i \in 1..Len(images) : images[i].ok) =>
        /\ ~use_moviepy
        /\ ffmpeg_on_path # "unknown"

WriteOrder == <<"optimized", "basic", "minimal">>

\* C20: the write attempts are a prefix of optimized, basic, minimal; every
\* attempt but the last one made has failed; the build goes on to cleanup
\* and return only after a successful attempt; after three failures it
\* raises the error that carries the message of the third.
C20_WriteLadder ==
    /\ Len(writes) <= 3
    /\ \A i \in 1..Len(writes) : writes[i].params = WriteOrder[i]
    /\ \A i \in 1..(Len(writes) - 1) : ~writes[i].ok
    /\ (use_moviepy /\ pc \in {"cleanup", "return", "done"}) =>
          (writes # <<>> /\ writes[Len(writes)].ok)
    /\ (writes # <<>> /\ writes[Len(writes)].ok) => pc \in {"cleanup", "return", "done"}
    /\ (Len(writes) = 3 /\ ~writes[3].ok) =>
          /\ pc = "raised"
          /\ result = NoResult
          /\ error = "All video write attempts failed. Last error: minimal"

C20_Witness ==
    /\ Len(writes) = 3
    /\ ~writes[3].ok
    /\ pc = "raised"

\* C21: on every exit path of build_video, by return or by exception, every
\* handle the build has opened (image clips, composed narration, music, mixed
\* audio, final video) has been closed.
C21_HandlesClosedOnEveryExit ==
    pc \in {"done", "raised"} => OpenedHandles \subseteq closed

\* C26: under the raw tool the manifest is not reduced by the crossfade: each
\* entry starts at the sum of the durations of the segments concatenated
\* before it, and the reported total is the sum of the durations of the
\* segments written.
C26_RawManifestMatchesSegments ==
    (pc = "done" /\ ~use_moviepy) =>
        /\ Len(result.timings) = Len(segment_paths)
        /\ \A i \in 1..Len(result.timings) :
              result.timings[i].start = SumDuration(SubSeq(segment_paths, 1, i - 1))
        /\ result.duration = SumDuration(segment_paths)

PanDirections == {"left", "right", "up", "down"}

\* C23: with the automatic pan direction, every clip pans in one of the four
\* directions, chosen by the scene index modulo 4: clips whose indices are
\* equal modulo 4 pan the same way, and clips of different indices within
\* four consecutive ones pan in different directions.
C23_PanCyclesByIndexMod4 ==
    \A i, j \in 1..Len(clips) :
        /\ PanDirection(clips[i].scene) \in PanDirections
        /\ (clips[i].scene % 4 = clips[j].scene % 4) =>
              PanDirection(clips[i].scene) = PanDirection(clips[j].scene)
        /\ (clips[i].scene % 4 # clips[j].scene % 4) =>
              PanDirection(clips[i].scene) # PanDirection(clips[j].scene)

\* C24: whenever generate_comic_image returns True, a JPEG (the generated
\* image or a placeholder) has been written at the output path with a .jpg
\* extension; it returns False only when the placeholder could not be
\* written.
C24_TrueMeansJpegWritten ==
    /\ gen_ret = "True" =>
          \E f \in gen_written :
              f.path = [stem |-> gen_args.output_path.stem, ext |-> ".jpg"]
    /\ gen_ret = "False" => gen_placeholder = "failed"
    /\ \A f \in gen_written : f.path.ext = ".jpg"

C24_Witness ==
    /\ gen_ret = "True"
    /\ gen_last = "quota"
    /\ gen_placeholder = "written"
    /\ gen_args.output_path.ext = ".png"

\* C27 (as claimed): a call with attempt = 1 makes at most max_retries
\* generation requests.
C27_AtMostMaxRetriesRequests ==
    gen_requests <= gen_args.max_retries

GenBounded ==
    /\ gen_requests <= Max(1, gen_args.max_retries)
    /\ gen_attempt <= Max(1, gen_args.max_retries)
    /\ gen_requests <= gen_attempt
    /\ Len(gen_sleeps) = gen_attempt - 1
    /\ \A i \in 1..Len(gen_sleeps) : gen_sleeps[i] = Pow2(i)
    /\ gen_last = "quota" => (gen_ret # "none" /\ gen_placeholder # "none")
    /\ (gen_ret # "none" /\ gen_last \in {"no_image", "error"}) =>
          (gen_attempt >= gen_args.max_retries /\ gen_placeholder # "none")

\* C27 (amended): a call with attempt = 1 terminates after at most
\* max(1, max_retries) generation requests; the retry after attempt a comes
\* after a sleep of 2^a seconds; a failure at attempt >= max_retries ends
\* with the placeholder; a quota error ends at once with the placeholder.
C27_TerminatesWithinRetries ==
    []GenBounded /\ <>(gen_ret # "none")

C27_Witness ==
    /\ gen_args.max_retries = 3
    /\ gen_requests = 3
    /\ gen_sleeps = <<2, 4>>
    /\ gen_last = "error"
    /\ gen_placeholder = "written"
    /\ gen_ret = "True"

\* C25: when synthesize_to_mp3 is called with a speed other than 1.0 and
\* returns, the audio is at output_path and the temporary file is gone; when
\* the speed adjustment failed the output is the unadjusted speech; the call
\* raises after the speech was saved only when the copy failed as well.
C25_SpeedAdjustLeavesOutputOnly ==
    LET output_path == tts_args.output_path
        temp_path == TempPath(output_path)
    IN /\ (tts_pc = "returned" /\ tts_args.speed # 1000) =>
             /\ Exists(tts_files, output_path)
             /\ temp_path # output_path => ~Exists(tts_files, temp_path)
       /\ (tts_pc = "returned" /\ tts_success = "copied") =>
             [path |-> output_path, content |-> "speech"] \in tts_files
       /\ (tts_pc = "raised" /\ tts_success # "none") => tts_success = "failed"

WikiErrorValues ==
    {"An error occurred while searching", "Disambiguation Error", "Page Error", "General Error"}

WikiBounded ==
    LET retries == wiki_args.retries IN
    /\ wiki_passes <= Max(0, retries)
    /\ wiki_attempt <= wiki_passes
    /\ Len(wiki_sleeps) = wiki_attempt
    /\ \A i \in 1..Len(wiki_sleeps) : wiki_sleeps[i] = Pow2(i)
    /\ (wiki_passes > wiki_attempt) => wiki_ret # "none"
    /\ wiki_last \in {"Exception", "DisambiguationError", "PageError_error"} =>
          wiki_ret \in WikiErrorValues
    /\ wiki_ret \in {"Failed to connect", "Connection Error"} <=>
          (/\ wiki_ret # "none"
           /\ ~(wiki_args.fn = "search" /\ InvalidQuery(wiki_args.query))
           /\ wiki_attempt = Max(0, retries)
           /\ wiki_passes = wiki_attempt)
    /\ (wiki_args.fn = "search" /\ InvalidQuery(wiki_args.query)) =>
          /\ wiki_passes = 0
          /\ wiki_calls = 0
          /\ wiki_ret \in {"none", "Please enter a valid search term."}
    /\ retries <= 0 => (wiki_passes = 0 /\ wiki_calls = 0)

C29_ImagesAndAudioSameTopic ==
    /\ (session.comic_images # 0 /\ session.audio_paths # 0) =>
          session.comic_images = session.audio_paths
    /\ (session.comic_images # 0 /\ session.narrations # 0) =>
          session.comic_images = session.narrations
    /\ sess_build.images = sess_build.audio

StageOrder ==
    /\ sess_build' # NoBuild => AssetsReady(session)
    /\ sess_last' = "audio" => session.narrations # 0
    /\ sess_last' = "narrations" => (session.story_saved /\ session.comic_images # 0)
    /\ sess_last' = "images" => session.scene_prompts # 0
    /\ sess_last' = "prompts" => session.storyline # 0
    /\ sess_last' = "start_over" => session' = SessionInit

\* C30: build_video is invoked only when comic_images and audio_paths are
\* both non-empty; audio synthesis runs only when narrations exist, narration
\* generation only when story_saved is set and images exist, image
\* generation only when scene prompts exist, scene-prompt generation only
\* when a storyline exists; Start Over leaves the initial session state.
C30_StagesInOrder ==
    [][StageOrder]_vars

C30_Witness ==
    /\ sess_last = "video"
    /\ sess_build.images # 0
    /\ session.final_video # 0
    /\ session.storyline = session.final_video
    /\ session.narrations = session.final_video
    /\ session.audio_paths = session.final_video
    /\ session.comic_images = session.final_video

\* A build has lost a file it still needs: its segments directory or one of
\* the segments it wrote while the segment loop or the concat run is still
\* to come, or its temporary audio before the video is encoded.
Clobbered(b) ==
    LET out_dir == b_args[b].out_dir IN
    \/ /\ b_pc[b] = "segments"
       /\ \/ ~Exists(fs, TmpDir(out_dir))
          \/ \E scene \in 1..b_seg[b] : Owner(fs, SegPath(out_dir, scene)) # b
    \/ /\ b_pc[b] = "write_video"
       /\ Owner(fs, TempAudioFile(out_dir)) # b

\* The video of a build holds what another build wrote.
Mixed(b) == b_read[b] \ {b} # {}

SamePaths(a, b) ==
    /\ TmpDir(b_args[a].out_dir) = TmpDir(b_args[b].out_dir)
    /\ TempAudioFile(b_args[a].out_dir) = TempAudioFile(b_args[b].out_dir)
    /\ \A scene \in 1..MaxSegments :
          SegPath(b_args[a].out_dir, scene) = SegPath(b_args[b].out_dir, scene)
    /\ ListFile(b_args[a].out_dir) = ListFile(b_args[b].out_dir)
    /\ VideoPath(b_args[a].out_dir, b_args[a].title)
          = VideoPath(b_args[b].out_dir, b_args[b].title)

\* C22: two builds with the same out_dir and title use the same output
\* path and the same intermediates and nothing keeps them apart: a build
\* loses files it needs, or gets another build's files into its video, in
\* some interleavings, and only when the other build has its out_dir.
C22_SameTargetUnguarded ==
    \A a, b \in Builds :
        /\ (b_args[a].out_dir = b_args[b].out_dir /\ b_args[a].title = b_args[b].title)
              => SamePaths(a, b)
        /\ (Clobbered(a) \/ Mixed(a)) =>
              \E c \in Builds \ {a} : b_args[c].out_dir = b_args[a].out_dir

\* Both builds have the same out_dir and title; build 2 has finished, its
\* video is at the output path and its rmtree has taken the segments that
\* build 1 wrote and still has to concatenate.
C22_Witness ==
    /\ b_args[1] = b_args[2]
    /\ ~b_args[1].use_moviepy
    /\ b_pc[1] = "segments"
    /\ b_seg[1] >= 1
    /\ b_pc[2] = "done"
    /\ Clobbered(1)
    /\ Owner(fs, VideoPath(b_args[1].out_dir, b_args[1].title)) = 2

====
